---- MODULE Spec2Model ----
(***************************************************************************)
(* Model of the reactive query/subscription bridge of kbario/mulberry:     *)
(*   - SolidQuerySubscriptionManager (packages/convex-solid)               *)
(*   - useQueryWithOptions (packages/convex-solid)                         *)
(*   - solidRouterWithQueryClient SSR stream / hydrate (router bridge)     *)
(* JavaScript is single-threaded: every handler below is one atomic        *)
(* action; awaits split a function into several actions.                   *)
(***************************************************************************)
EXTENDS Integers, Sequences, FiniteSets, TLC

----------------------------------------------------------------------------
(* Bounds *)

\* number of subscribe calls (observers, effect runs of a query binding);
\* also bounds the channels opened
NumObs == 2
\* how often one returned unsubscribe handle may be called
MaxUnsubCalls == 2

\* JavaScript `undefined` (no pushed value is undefined)
Undef == 0

Obs == 1..NumObs
ChanIds == 1..NumObs
\* query results: opaque to the code, which only tests them against undefined
Values == {1, 2}
\* query identities: getQueryKey(query, args) = functionName ":" JSON(args)
Keys == {"list:[1]", "list:[2]"}
\* the identity the observers that call the manager directly subscribe to
\* (entries of different keys do not interact: every operation looks up one key)
DirectKeys == {"list:[1]"}
\* refetch() calls of one binding in flight at once
MaxRefetch == 1
\* queries of one server render
NumQueries == 3
\* invocations of one call binding
MaxCalls == 2
\* errors reported to the cache hooks
MaxHookCalls == 3
\* retry.attempts of a loader
MaxRetries == 2
\* chunks queued on the pushable stream when it is driven on its own
MaxQueue == 2
Queries == 1..NumQueries

----------------------------------------------------------------------------
(* Sequence helpers *)

Range(s) == {s[i] : i \in 1..Len(s)}

\* Set.prototype.delete on an insertion-ordered Set
SeqRemove(s, x) == SelectSeq(s, LAMBDA y : y # x)

\* Set.prototype.add on an insertion-ordered Set
SeqAdd(s, x) == IF x \in Range(s) THEN s ELSE Append(s, x)

\* the position of an element of an insertion-ordered Set
IndexOf(s, x) == CHOOSE i \in 1..Len(s) : s[i] = x

----------------------------------------------------------------------------
(* State of the subscription manager *)

VARIABLES
    subs,      \* this.subscriptions: key -> entry (present = FALSE: no entry)
    chans,     \* channels opened by client.onUpdate, with the closure state
               \* of their push handler (callbacks Set, lastValue, onError)
    obs,       \* per subscribe call: the returned unsubscribe handle
    ev,        \* calls made by the most recent handler (observable effects)
    q,         \* one useQueryWithOptions binding: its signals and its effect
    runs,      \* the runs of the binding's createEffect (run r subscribes as
               \* observer r): the await position and isCancelled of each
    refetching, \* args of the refetch() calls whose client.query is in flight
    srv,       \* server render: the QueryClient's cache and the router's
               \* dehydration progress
    stream,    \* createSolidPushableStream: _isClosed, the controller and
               \* the chunks queued in the ReadableStream
    hist,      \* history: 'added' events after dehydration, chunks read,
               \* queries resolved after dehydration
    cli,       \* client: router.options.hydrate and its stream reader
    bind,      \* one call binding (useMutation, useAction, or the refetch of
               \* useQueryWithOptions): its signals
    calls,     \* the invocations of the binding's mutate / execute / refetch
    router,    \* redirect interception: the calls of router.navigate and of
               \* the originally configured cache onError hooks
    cqc,       \* ConvexQueryClient: subscriptions table and the query cache
    loader     \* one loader made by createSolidRouterQueryLoader

mgrVars == <<subs, chans, obs, ev>>
qVars == <<q, runs, refetching>>
hVars == <<srv, stream, hist, cli>>
bVars == <<bind, calls>>
xVars == <<bind, calls, router, cqc, loader>>

NoEntry == [present |-> FALSE, chan |-> 0, refCount |-> 0, lastValue |-> Undef,
            isStale |-> FALSE]

NoChan == [status |-> "unopened", key |-> "", callbacks |-> <<>>,
           lastValue |-> Undef, creator |-> 0, torn |-> 0]

\* late: some handle of the key had already been called when this observer
\* subscribed (history, read only by the properties)
NoObs == [state |-> "idle", key |-> "", unsubCalls |-> 0, late |-> FALSE]

NoEv == [op |-> "init", obs |-> 0, key |-> "", chan |-> 0, value |-> Undef,
         targets |-> <<>>, delivered |-> <<>>, threw |-> {}, errTo |-> <<>>,
         escaped |-> FALSE, opened |-> FALSE, tornDown |-> FALSE,
         replay |-> Undef, hadPush |-> FALSE, mostRecent |-> Undef,
         afterZero |-> FALSE, after |-> <<>>]

MgrInit ==
    /\ subs = [k \in Keys |-> NoEntry]
    /\ chans = [c \in ChanIds |-> NoChan]
    /\ obs = [o \in Obs |-> NoObs]
    /\ ev = NoEv

NoData == [k |-> "", v |-> Undef]

NoRun == [state |-> "none", args |-> "", cancelled |-> FALSE]

\* the binding right after useQueryWithOptions returned: the signals hold
\* their initial values and the effect has not run yet
QInit ==
    /\ q \in {[enabled |-> e, effect |-> "pending", args |-> a, data |-> NoData,
                error |-> "none", isLoading |-> TRUE] :
                    e \in BOOLEAN, a \in Keys}
    /\ runs = [r \in Obs |-> NoRun]
    /\ refetching = <<>>

\* no binding is mounted
QIdle ==
    /\ q = [enabled |-> FALSE, effect |-> "unmounted", args |-> "", data |-> NoData,
            error |-> "none", isLoading |-> TRUE]
    /\ runs = [r \in Obs |-> NoRun]
    /\ refetching = <<>>

EmptyCache == [x \in Queries |-> "absent"]

\* solidRouterWithQueryClient was called on the server (stream created and
\* started, nothing dehydrated) and on the client (hydrate not yet called)
HInit ==
    /\ srv = [cache |-> EmptyCache, snapTaken |-> FALSE, snapshot |-> EmptyCache,
              isDehydrated |-> FALSE, finished |-> FALSE]
    /\ stream = [isClosed |-> FALSE, ctl |-> "open", queue |-> <<>>]
    /\ hist = [added |-> <<>>, taken |-> <<>>, resolved |-> <<>>]
    /\ cli = [pc |-> "idle", cache |-> EmptyCache, applied |-> <<>>, onErrors |-> 0,
              destroyed |-> FALSE]

\* what a remote call can reject with: a ConvexError of this library (it
\* always carries a code), another Error, a value that is no Error, and a
\* router redirect (no Error either: isRedirect(err) holds for it)
Thrown == {[t |-> "ConvexError", code |-> "NETWORK_ERROR", cause |-> "none"],
           [t |-> "Error",       code |-> "",              cause |-> "none"],
           [t |-> "string",      code |-> "",              cause |-> "none"],
           [t |-> "redirect",    code |-> "",              cause |-> "none"]}

NoError == [t |-> "undefined", code |-> "", cause |-> "none"]

CallArgs == {"x", "y"}

NoCall == [state |-> "none", args |-> "", sent |-> <<>>,
           result |-> [ok |-> TRUE, v |-> Undef, thrown |-> NoError],
           outcome |-> [ok |-> TRUE, v |-> Undef, error |-> NoError]]

\* a binding right after useMutation / useAction / useQueryWithOptions
\* returned it; thrown: the value caught when error was last set
BInit ==
    /\ bind \in {[kind |-> k, data |-> Undef, error |-> NoError,
                  isLoading |-> (k = "query"), thrown |-> NoError] :
                     k \in {"query", "mutation", "action"}}
    /\ calls = [i \in 1..MaxCalls |-> NoCall]

\* no call binding is in use
BIdle ==
    /\ bind = [kind |-> "none", data |-> Undef, error |-> NoError,
               isLoading |-> FALSE, thrown |-> NoError]
    /\ calls = [i \in 1..MaxCalls |-> NoCall]

\* the errors the query cache and the mutation cache report to onError
HookErrors == {[t |-> "redirect", to |-> "/a"], [t |-> "redirect", to |-> "/b"],
               [t |-> "Error", to |-> ""], [t |-> "ConvexError", to |-> ""]}

NoHookCall == [hook |-> "", err |-> [t |-> "", to |-> ""], args |-> "",
               navs |-> <<>>, orig |-> <<>>, escaped |-> FALSE]

\* solidRouterWithQueryClient has returned on the client; handle:
\* `options.handleRedirects ?? true`. navs: the router.navigate calls,
\* orig: the calls of the originally configured hooks, last: the calls of
\* the most recent hook invocation
RInit ==
    router \in {[handle |-> h, navs |-> <<>>, orig |-> <<>>, onErrors |-> 0,
                 n |-> 0, last |-> NoHookCall] : h \in BOOLEAN}

\* the router integration is not in use
RIdle == router = [handle |-> FALSE, navs |-> <<>>, orig |-> <<>>, onErrors |-> 0,
                   n |-> 0, last |-> NoHookCall]

\* query hashes of the TanStack query cache: two convexQuery keys and one
\* whose args are 'skip' (a key of another library is ignored likewise)
Hashes == {"q1", "q2", "skip"}

\* per hash: the cache entry (inCache, data, fetching), the record of
\* this.subscriptions (rec) and the closure of its watch: currentResult
\* (cur) and the channel of convexClient.onUpdate (live); opened: the
\* 'added' handler of the entry in the cache opened a channel
NoQuery == [inCache |-> FALSE, data |-> Undef, fetching |-> FALSE,
            opened |-> FALSE, rec |-> FALSE, live |-> FALSE, cur |-> Undef]

NoLog == [op |-> "", h |-> "", v |-> Undef, hadRec |-> FALSE, wrote |-> FALSE,
          notified |-> FALSE, unsub |-> FALSE, threw |-> FALSE]

\* the QueryClients an instance can be given
QueryClients == {"qc1", "qc2"}

\* new ConvexQueryClient(client, options) on the client, cache empty: with
\* options.queryClient the constructor connects, without it _queryClient
\* and unsubscribe stay undefined. on: this.unsubscribe is set;
\* qc: this._queryClient
CInit ==
    cqc \in {[on |-> TRUE, qc |-> "qc1", qs |-> [h \in Hashes |-> NoQuery],
              log |-> NoLog],
             [on |-> FALSE, qc |-> "undefined",
              qs |-> [h \in Hashes |-> NoQuery], log |-> NoLog]}

\* no ConvexQueryClient is connected
CIdle == cqc = [on |-> FALSE, qc |-> "undefined",
                qs |-> [h \in Hashes |-> NoQuery], log |-> NoLog]

\* the error a call of the client made by createConvexClient rejects with
\* when the remote call rejected with err: a ConvexError as it is, anything
\* else wrapped once with the code of the call
ClientWrap(err, code) ==
    IF err.t = "ConvexError" THEN err
    ELSE [t |-> "ConvexError", code |-> code, cause |-> err.t]

\* what loaderFn can reject with: a redirect, an error of its own, or the
\* error of a query made through the client of createConvexClient
LoaderThrown ==
    Thrown \cup {ClientWrap(e, "CLIENT_QUERY_ERROR") : e \in Thrown \ {[t |-> "redirect", code |-> "", cause |-> "none"]}}

NoOutcome == [ok |-> TRUE, v |-> Undef, error |-> NoError]

\* createSolidRouterQueryLoader returned a loader; retry: the retry option
\* is given, attempts and delay: its fields (delay: retry.delay > 0)
LInit ==
    loader \in {[retry |-> r, attempts |-> a, delay |-> d, pc |-> "idle",
                 attempt |-> 0, calls |-> 0, caught |-> NoError,
                 outcome |-> NoOutcome, onErrors |-> 0] :
                    r \in BOOLEAN, a \in 0..MaxRetries, d \in BOOLEAN}

\* no loader is in use
LIdle ==
    loader = [retry |-> FALSE, attempts |-> 0, delay |-> FALSE, pc |-> "unused",
              attempt |-> 0, calls |-> 0, caught |-> NoError,
              outcome |-> NoOutcome, onErrors |-> 0]

----------------------------------------------------------------------------
(* SolidQuerySubscriptionManager.subscribe: helpers *)

\* the key is never looked up: every subscribe opens a channel
HasEntryNever(k) == FALSE

\* `let subscription = this.subscriptions.get(key); if (!subscription)`
HasEntry(k) == subs[k].present

\* the channel object the next client.onUpdate call returns
FreshChan == CHOOSE c \in ChanIds :
                 /\ chans[c].status = "unopened"
                 /\ \A d \in ChanIds : chans[d].status = "unopened" => c <= d

\* channels client.onUpdate has opened for a key and that are not torn down
LiveChans(k) == {c \in ChanIds : chans[c].status = "live" /\ chans[c].key = k}

\* channels client.onUpdate has ever returned for a key
OpenedChans(k) == {c \in ChanIds : chans[c].status # "unopened" /\ chans[c].key = k}

\* how often the teardown functions of a key's channels have been invoked
RECURSIVE TornSum(_)
TornSum(C) == IF C = {} THEN 0
              ELSE LET c == CHOOSE x \in C : TRUE
                   IN  chans[c].torn + TornSum(C \ {c})

TornCount(k) == TornSum(OpenedChans(k))

\* the subscribe calls that returned a handle for a key
Subscribers(k) == {o \in Obs : obs[o].state = "subscribed" /\ obs[o].key = k}

\* the `client` argument of subscribe call o: the first call is made with
\* one client, every other call with a second one
ClientOf(o) == IF o = 1 THEN "client1" ELSE "client2"

\* the client whose onUpdate opened channel c: the `client` argument of the
\* subscribe call that found no entry under the key
ChanClient(c) == ClientOf(chans[c].creator)

\* the onError the push handler reports a throwing callback to: the
\* `onError` destructured from the options of the subscribe call that opened
\* the channel (the handler closes over that call's variables)
PushErrorHandler(c, thrower) == chans[c].creator

\* what is written when the channel pushes: the closure variable
\* `lastValue = value`; the entry's lastValue field was copied at creation
\* and is not written again
EntryAfterPush(e, v) == e

\* Fan-out without the per-callback try/catch: the first throwing callback
\* ends the forEach and the exception leaves the push handler.
RECURSIVE FanOutNoCatch(_, _, _)
FanOutNoCatch(cbs, T, c) ==
    IF cbs = <<>>
    THEN [delivered |-> <<>>, errTo |-> <<>>, escaped |-> FALSE]
    ELSE IF Head(cbs) \in T
         THEN [delivered |-> <<Head(cbs)>>, errTo |-> <<>>, escaped |-> TRUE]
         ELSE LET rest == FanOutNoCatch(Tail(cbs), T, c)
              IN  [delivered |-> <<Head(cbs)>> \o rest.delivered,
                   errTo |-> rest.errTo, escaped |-> rest.escaped]

\* callbacks.forEach((cb) => { try { cb(value) } catch { onError?.(...) } })
\* cbs: the callbacks Set in insertion order; T: the callbacks that throw;
\* c: the channel whose push handler runs.
RECURSIVE FanOut(_, _, _)
FanOut(cbs, T, c) ==
    IF cbs = <<>>
    THEN [delivered |-> <<>>, errTo |-> <<>>, escaped |-> FALSE]
    ELSE LET rest == FanOut(Tail(cbs), T, c)
         IN  [delivered |-> <<Head(cbs)>> \o rest.delivered,
              errTo |-> (IF Head(cbs) \in T
                         THEN <<PushErrorHandler(c, Head(cbs))>>
                         ELSE <<>>) \o rest.errTo,
              escaped |-> rest.escaped]

\* `if (sub.refCount === 0)` after the decrement
TeardownDueEarly(rc) == rc <= 1

TeardownDue(rc) == rc = 0

----------------------------------------------------------------------------
(* SolidQuerySubscriptionManager: operations on the manager's variables *)

\* subscribe(client, query, args, callback, {onError}) returning normally.
\* o: this call (its callback, its onError, its returned handle); k: the key;
\* sv: a value the remote channel pushes synchronously inside onUpdate
\* (Undef: none); T: {o} when o's callback throws on the replay call.
MgrSubscribe(o, k, sv, T) ==
    LET had    == HasEntry(k)
        c      == IF had THEN subs[k].chan ELSE FreshChan
        chan0  == IF had THEN chans[c]
                  ELSE [status |-> "live", key |-> k, callbacks |-> <<>>,
                        lastValue |-> sv, creator |-> o, torn |-> 0]
        entry0 == IF had THEN subs[k]
                  ELSE [present |-> TRUE, chan |-> c, refCount |-> 0,
                        lastValue |-> sv, isStale |-> FALSE]
        replay == entry0.lastValue
    IN  /\ obs[o].state = "idle"
        /\ had => sv = Undef
        /\ ~had => \E d \in ChanIds : chans[d].status = "unopened"
        /\ T \subseteq (IF replay # Undef THEN {o} ELSE {})
        /\ chans' = [chans EXCEPT ![c] =
                        [chan0 EXCEPT !.callbacks = SeqAdd(@, o)]]
        /\ subs' = [subs EXCEPT ![k] =
                        [entry0 EXCEPT !.refCount = @ + 1]]
        /\ obs' = [obs EXCEPT ![o] =
                        [state |-> "subscribed", key |-> k, unsubCalls |-> 0,
                         late |-> \E p \in Obs : /\ obs[p].key = k
                                                 /\ obs[p].unsubCalls > 0]]
        /\ ev' = [NoEv EXCEPT
                    !.op = "subscribe", !.obs = o, !.key = k, !.chan = c,
                    !.opened = ~had,
                    !.replay = replay,
                    !.delivered = IF replay # Undef THEN <<o>> ELSE <<>>,
                    !.threw = T,
                    !.errTo = IF T # {} THEN <<o>> ELSE <<>>,
                    !.hadPush = had /\ chans[c].lastValue # Undef,
                    !.mostRecent = IF had THEN chans[c].lastValue ELSE Undef,
                    !.afterZero =
                        \/ ~had /\ OpenedChans(k) # {}
                        \/ had /\ subs[k].refCount = 0
                               /\ chans[c].callbacks = <<>>]

\* subscribe when client.onUpdate throws: the catch block reports a
\* ConvexSubscriptionError to this call's onError and rethrows it; no entry
\* is stored and the caller gets no handle.
MgrSubscribeFail(o, k) ==
    /\ obs[o].state = "idle"
    /\ ~HasEntry(k)
    /\ ev' = [NoEv EXCEPT !.op = "subscribeFail", !.obs = o, !.key = k,
                          !.errTo = <<o>>, !.escaped = TRUE]
    /\ UNCHANGED <<subs, chans, obs>>

\* The body of the unsubscribe handle returned to o, run on the entries S and
\* the channels C: what it leaves behind, which channel it touched and
\* whether it called the teardown. ok: throws and stillLive describe a
\* teardown that the call makes.
HandleOutcome(S, C, o, throws, stillLive) ==
    LET k   == obs[o].key
        sub == S[k]
        c   == sub.chan
        rc  == sub.refCount - 1
    IN  IF ~sub.present
        THEN [ok |-> ~throws /\ ~stillLive, subs |-> S, chans |-> C,
              chan |-> 0, tornDown |-> FALSE]
        ELSE IF ~TeardownDue(rc)
        THEN [ok |-> ~throws /\ ~stillLive,
              subs |-> [S EXCEPT ![k].refCount = rc],
              chans |-> [C EXCEPT ![c].callbacks = SeqRemove(@, o)],
              chan |-> c, tornDown |-> FALSE]
        ELSE [ok |-> stillLive => throws /\ C[c].status = "live",
              subs |-> [S EXCEPT ![k] =
                            IF throws THEN [sub EXCEPT !.refCount = rc]
                            ELSE NoEntry],
              chans |-> [C EXCEPT ![c] =
                            IF throws
                            THEN [@ EXCEPT !.callbacks = SeqRemove(@, o),
                                           !.torn = @ + 1,
                                           !.status = IF stillLive THEN @
                                                      ELSE "closed"]
                            ELSE [NoChan EXCEPT !.status = "closed",
                                                !.key = k,
                                                !.torn = C[c].torn + 1]],
              chan |-> c, tornDown |-> TRUE]

\* the unsubscribe handle returned to o. throws: the channel's teardown
\* function throws; stillLive: whether a teardown that threw left the
\* remote channel open. Once the entry is deleted nothing references the
\* push handler's closure any more: only the channel's status, key and
\* teardown count are kept of it.
MgrUnsubscribe(o, throws, stillLive) ==
    LET k   == obs[o].key
        out == HandleOutcome(subs, chans, o, throws, stillLive)
    IN  /\ obs[o].state = "subscribed"
        /\ obs[o].unsubCalls < MaxUnsubCalls
        /\ out.ok
        /\ obs' = [obs EXCEPT ![o].unsubCalls = @ + 1]
        /\ subs' = out.subs
        /\ chans' = out.chans
        /\ ev' = [NoEv EXCEPT !.op = "unsubscribe", !.obs = o, !.key = k,
                              !.chan = out.chan, !.tornDown = out.tornDown]

\* the push handler passed to client.onUpdate runs for channel c with value v;
\* T: the callbacks that throw when invoked.
MgrPush(c, v, T) ==
    LET cbs == chans[c].callbacks
        k   == chans[c].key
        out == FanOut(cbs, T, c)
    IN  /\ chans[c].status = "live"
        /\ T \subseteq Range(cbs)
        /\ chans' = [chans EXCEPT ![c].lastValue = v]
        /\ subs' = [subs EXCEPT ![k] =
                        IF @.present /\ @.chan = c THEN EntryAfterPush(@, v) ELSE @]
        /\ ev' = [NoEv EXCEPT !.op = "push", !.key = k, !.chan = c, !.value = v,
                              !.targets = cbs, !.delivered = out.delivered,
                              !.threw = T, !.errTo = out.errTo,
                              !.escaped = out.escaped]
        /\ UNCHANGED obs

\* invalidate also forgets the entry's value
EntryAfterInvalidateCleared(e) == [e EXCEPT !.isStale = TRUE, !.lastValue = Undef]

\* `subscription.isStale = true`
EntryAfterInvalidate(e) == [e EXCEPT !.isStale = TRUE]

\* the keys invalidate(query, args?) looks at. withArgs: the key of the
\* arguments; otherwise every key of the table that starts with the
\* function name and ":" (all identities here are of one function)
InvalidatedKeys(withArgs, k) == IF withArgs THEN {k} ELSE Keys

\* invalidate(query, args?)
MgrInvalidate(withArgs, k) ==
    /\ subs' = [x \in Keys |->
                  IF x \in InvalidatedKeys(withArgs, k) /\ subs[x].present
                  THEN EntryAfterInvalidate(subs[x])
                  ELSE subs[x]]
    /\ ev' = [NoEv EXCEPT !.op = "invalidate",
                          !.key = IF withArgs THEN k ELSE ""]
    /\ UNCHANGED <<chans, obs>>

\* the forEach visiting a copy of the callbacks taken when the push arrived
StillToVisitSnapshot(rest, u, sameSet) == rest

\* callbacks.forEach walks the live Set: an entry deleted before the walk
\* reached it is not visited. rest: the entries not yet visited when the
\* handle of u ran; sameSet: the handle deleted from the Set being walked.
StillToVisit(rest, u, sameSet) == IF sameSet THEN SeqRemove(rest, u) ELSE rest

\* the push handler of channel c runs with value v, no callback throws, and
\* the callback of `by` calls the unsubscribe handle of u while the forEach
\* is under way
MgrPushReentrant(c, v, by, u, throws, stillLive) ==
    LET cbs  == chans[c].callbacks
        k    == chans[c].key
        S1   == [subs EXCEPT ![k] =
                    IF @.present /\ @.chan = c THEN EntryAfterPush(@, v) ELSE @]
        C1   == [chans EXCEPT ![c].lastValue = v]
        out  == HandleOutcome(S1, C1, u, throws, stillLive)
        pos  == IndexOf(cbs, by)
        rest == StillToVisit(SubSeq(cbs, pos + 1, Len(cbs)), u, out.chan = c)
    IN  /\ chans[c].status = "live"
        /\ by \in Range(cbs)
        /\ obs[u].state = "subscribed"
        /\ obs[u].unsubCalls < MaxUnsubCalls
        /\ out.ok
        /\ obs' = [obs EXCEPT ![u].unsubCalls = @ + 1]
        /\ subs' = out.subs
        /\ chans' = out.chans
        /\ ev' = [NoEv EXCEPT !.op = "pushReentrant", !.obs = u, !.key = k,
                              !.chan = c, !.value = v, !.targets = cbs,
                              !.delivered = SubSeq(cbs, 1, pos) \o rest,
                              !.after = rest, !.tornDown = out.tornDown]

----------------------------------------------------------------------------
(* Specification of the manager used directly by observers *)

Subscribe(o, k) ==
    /\ \E sv \in Values \cup {Undef}, T \in SUBSET {o} : MgrSubscribe(o, k, sv, T)
    /\ UNCHANGED <<qVars, hVars, xVars>>

SubscribeFail(o, k) ==
    /\ MgrSubscribeFail(o, k)
    /\ UNCHANGED <<qVars, hVars, xVars>>

Unsubscribe(o) ==
    /\ \E throws \in BOOLEAN, stillLive \in BOOLEAN :
           MgrUnsubscribe(o, throws, stillLive)
    /\ UNCHANGED <<qVars, hVars, xVars>>

Push(c) ==
    /\ \E v \in Values, T \in SUBSET Obs : MgrPush(c, v, T)
    /\ UNCHANGED <<qVars, hVars, xVars>>

PushReentrant(c) ==
    /\ \E v \in Values, by \in Obs, u \in Obs, throws \in BOOLEAN,
          stillLive \in BOOLEAN :
           MgrPushReentrant(c, v, by, u, throws, stillLive)
    /\ UNCHANGED <<qVars, hVars, xVars>>

Invalidate(k) ==
    /\ \E withArgs \in BOOLEAN : MgrInvalidate(withArgs, k)
    /\ UNCHANGED <<qVars, hVars, xVars>>

Next ==
    \/ \E o \in Obs, k \in DirectKeys : Subscribe(o, k)
    \/ \E o \in Obs, k \in DirectKeys : SubscribeFail(o, k)
    \/ \E o \in Obs : Unsubscribe(o)
    \/ \E c \in ChanIds : Push(c)
    \/ \E c \in ChanIds : PushReentrant(c)

Init == MgrInit /\ QIdle /\ HInit /\ BIdle /\ RIdle /\ CIdle /\ LIdle

vars == <<subs, chans, obs, ev, q, runs, refetching, srv, stream, hist, cli,
          bind, calls, router, cqc, loader>>

Spec == Init /\ [][Next]_vars

\* the manager with invalidate: the operations that write the entries and
\* the channels, and invalidate called in any state they reach
NextInvalidate ==
    \/ \E o \in Obs, k \in DirectKeys : Subscribe(o, k)
    \/ \E o \in Obs : Unsubscribe(o)
    \/ \E c \in ChanIds : Push(c)
    \/ \E k \in Keys : Invalidate(k)

SpecInvalidate == Init /\ [][NextInvalidate]_vars

----------------------------------------------------------------------------
(* useQueryWithOptions: one binding on top of the module-level manager *)

\* the isCancelled flag of run r is set although the run is not cancelled
RunLiveAlways(r) == TRUE

\* `if (!isCancelled)` in executeQuery and in the callbacks of run r
RunLive(r) == ~runs[r].cancelled

\* the most recent run of the effect (0: the effect body never got past
\* the enabled check)
CurRun == IF \E r \in Obs : runs[r].state # "none"
          THEN CHOOSE r \in Obs : /\ runs[r].state # "none"
                                  /\ \A p \in Obs : runs[p].state # "none" => p <= r
          ELSE 0

FreshRun == CHOOSE r \in Obs : /\ runs[r].state = "none"
                               /\ \A p \in Obs : runs[p].state = "none" => r <= p

\* the signals after the effect body ran for args a: disabled, it only sets
\* isLoading to false; enabled, executeQuery runs up to its await of
\* client.query: setIsLoading(true), setError(undefined)
AfterEffectBody(a) ==
    IF q.enabled
    THEN [q EXCEPT !.effect = "ran", !.args = a, !.isLoading = TRUE,
                   !.error = "none"]
    ELSE [q EXCEPT !.effect = "ran", !.args = a, !.isLoading = FALSE]

\* the runs after run r was started for args a (enabled bindings only)
StartRun(rs, a) ==
    IF q.enabled
    THEN [rs EXCEPT ![FreshRun] = [state |-> "fetching", args |-> a,
                                   cancelled |-> FALSE]]
    ELSE rs

\* onCleanup of the current run: isCancelled = true; unsubscribe?.()
Cleanup(r, throws, stillLive) ==
    IF r # 0 /\ runs[r].state = "subscribed" /\ ~runs[r].cancelled
    THEN MgrUnsubscribe(r, throws, stillLive)
    ELSE /\ ~throws /\ ~stillLive
         /\ ev' = [NoEv EXCEPT !.op = "cleanup"]
         /\ UNCHANGED <<subs, chans, obs>>

Cancelled(rs, r) == IF r # 0 THEN [rs EXCEPT ![r].cancelled = TRUE] ELSE rs

\* first run of createEffect after the binding was created
EffectRun ==
    /\ UNCHANGED <<hVars, xVars>>
    /\ q.effect = "pending"
    /\ q' = AfterEffectBody(q.args)
    /\ runs' = StartRun(runs, q.args)
    /\ ev' = [NoEv EXCEPT !.op = "effect"]
    /\ UNCHANGED <<subs, chans, obs, refetching>>

\* the effect re-runs for changed arguments a: the cleanup of the previous
\* run, then the effect body again
ArgsChange(a) ==
    /\ UNCHANGED <<hVars, xVars>>
    /\ q.effect = "ran"
    /\ a # q.args
    /\ q.enabled => \E r \in Obs : runs[r].state = "none"
    /\ \E throws \in BOOLEAN, stillLive \in BOOLEAN :
           Cleanup(CurRun, throws, stillLive)
    /\ q' = AfterEffectBody(a)
    /\ runs' = StartRun(Cancelled(runs, CurRun), a)
    /\ UNCHANGED refetching

\* the owning scope is disposed: the cleanup of the current run
Dispose ==
    /\ UNCHANGED <<hVars, xVars>>
    /\ q.effect = "ran"
    /\ \E throws \in BOOLEAN, stillLive \in BOOLEAN :
           Cleanup(CurRun, throws, stillLive)
    /\ q' = [q EXCEPT !.effect = "disposed"]
    /\ runs' = Cancelled(runs, CurRun)
    /\ UNCHANGED refetching

\* `await client.query(...)` of run r resolves with v; then, not cancelled,
\* subscriptionManager.subscribe returns a handle (sv: a synchronous first
\* push; the replay call runs the run's callback)
FetchResolve(r, v) ==
    /\ UNCHANGED <<hVars, xVars>>
    /\ runs[r].state = "fetching"
    /\ IF RunLive(r)
       THEN /\ \E sv \in Values \cup {Undef} :
                   MgrSubscribe(r, runs[r].args, sv, {})
            /\ q' = [q EXCEPT
                       !.data = IF ev'.replay # Undef
                                THEN [k |-> runs[r].args, v |-> ev'.replay]
                                ELSE [k |-> runs[r].args, v |-> v],
                       !.isLoading = FALSE,
                       !.error = IF ev'.replay # Undef THEN "none" ELSE @]
            /\ runs' = [runs EXCEPT ![r].state = "subscribed"]
       ELSE /\ runs' = [runs EXCEPT ![r].state = "dropped"]
            /\ ev' = [NoEv EXCEPT !.op = "dropped", !.obs = r]
            /\ UNCHANGED <<subs, chans, obs, q>>
    /\ UNCHANGED refetching

\* as FetchResolve, but client.onUpdate throws inside subscribe: the run's
\* onError sets error, and the catch of executeQuery sets it again
FetchResolveSubscribeFail(r, v) ==
    /\ UNCHANGED <<hVars, xVars>>
    /\ runs[r].state = "fetching"
    /\ RunLive(r)
    /\ MgrSubscribeFail(r, runs[r].args)
    /\ q' = [q EXCEPT !.data = [k |-> runs[r].args, v |-> v],
                      !.isLoading = FALSE,
                      !.error = "SUBSCRIPTION_ERROR"]
    /\ runs' = [runs EXCEPT ![r].state = "failed"]
    /\ UNCHANGED refetching

\* the catch block resets the data signal
DataCleared(d) == NoData

\* the data signal after a catch block ran: setError and setIsLoading
\* only, data is not written
DataAfterError(d) == d

\* `await client.query(...)` of run r rejects
FetchReject(r) ==
    /\ UNCHANGED <<hVars, xVars>>
    /\ runs[r].state = "fetching"
    /\ IF RunLive(r)
       THEN /\ q' = [q EXCEPT !.error = "QUERY_ERROR", !.isLoading = FALSE,
                              !.data = DataAfterError(@)]
            /\ runs' = [runs EXCEPT ![r].state = "failed"]
            /\ ev' = [NoEv EXCEPT !.op = "fetchError", !.obs = r]
       ELSE /\ runs' = [runs EXCEPT ![r].state = "dropped"]
            /\ ev' = [NoEv EXCEPT !.op = "dropped", !.obs = r]
            /\ UNCHANGED q
    /\ UNCHANGED <<subs, chans, obs, refetching>>

\* the subscription callback shows the binding as loading until the next
\* fetch
LoadingAfterPushSet(l) == TRUE

\* the isLoading signal after the subscription callback of a run ran:
\* setData and setError only
LoadingAfterPush(l) == l

\* a push on channel c: the fan-out runs the callbacks of the runs
\* registered on it; the callback of a run that is not cancelled does
\* batch(() => { setData(newValue); setError(undefined) })
QPush(c, v) ==
    /\ UNCHANGED <<hVars, xVars>>
    /\ MgrPush(c, v, {})
    /\ q' = IF \E r \in Range(ev'.delivered) : RunLive(r)
            THEN [q EXCEPT !.data = [k |-> chans[c].key, v |-> v],
                           !.error = "none",
                           !.isLoading = LoadingAfterPush(@)]
            ELSE q
    /\ UNCHANGED <<runs, refetching>>

\* refetch() up to its await of client.query
Refetch ==
    /\ UNCHANGED <<hVars, xVars>>
    /\ q.effect = "ran"
    /\ Len(refetching) < MaxRefetch
    /\ q' = [q EXCEPT !.isLoading = TRUE, !.error = "none"]
    /\ refetching' = Append(refetching, q.args)
    /\ ev' = [NoEv EXCEPT !.op = "refetch"]
    /\ UNCHANGED <<subs, chans, obs, runs>>

DropAt(s, i) == SubSeq(s, 1, i - 1) \o SubSeq(s, i + 1, Len(s))

\* the client.query of the i-th refetch in flight resolves with v
RefetchResolve(i, v) ==
    /\ UNCHANGED <<hVars, xVars>>
    /\ i \in 1..Len(refetching)
    /\ q' = [q EXCEPT !.data = [k |-> refetching[i], v |-> v],
                      !.isLoading = FALSE]
    /\ refetching' = DropAt(refetching, i)
    /\ ev' = [NoEv EXCEPT !.op = "refetched"]
    /\ UNCHANGED <<subs, chans, obs, runs>>

\* the client.query of the i-th refetch in flight rejects
RefetchReject(i) ==
    /\ UNCHANGED <<hVars, xVars>>
    /\ i \in 1..Len(refetching)
    /\ q' = [q EXCEPT !.error = "QUERY_ERROR", !.isLoading = FALSE,
                      !.data = DataAfterError(@)]
    /\ refetching' = DropAt(refetching, i)
    /\ ev' = [NoEv EXCEPT !.op = "refetchError"]
    /\ UNCHANGED <<subs, chans, obs, runs>>

NextQuery ==
    \/ EffectRun
    \/ \E a \in Keys : ArgsChange(a)
    \/ Dispose
    \/ \E r \in Obs, v \in Values : FetchResolve(r, v)
    \/ \E r \in Obs, v \in Values : FetchResolveSubscribeFail(r, v)
    \/ \E r \in Obs : FetchReject(r)
    \/ \E c \in ChanIds, v \in Values : QPush(c, v)
    \/ Refetch
    \/ \E i \in 1..MaxRefetch, v \in Values : RefetchResolve(i, v)
    \/ \E i \in 1..MaxRefetch : RefetchReject(i)

InitQuery == MgrInit /\ QInit /\ HInit /\ BIdle /\ RIdle /\ CIdle /\ LIdle

SpecQuery == InitQuery /\ [][NextQuery]_vars

----------------------------------------------------------------------------
(* useMutation.mutate, useAction.execute and useQueryWithOptions.refetch *)

\* the code a plain Error is wrapped with
KindCode(kind) == CASE kind = "query"    -> "QUERY_ERROR"
                    [] kind = "mutation" -> "MUTATION_ERROR"
                    [] kind = "action"   -> "ACTION_ERROR"

\* the caught value is stored as it is
NormalizeNot(err, kind) == err

\* const convexError = err instanceof ConvexError ? err
\*    : err instanceof Error ? new ConvexError(err.message, <kind>, {originalError: err})
\*    : new ConvexError(String(err), 'UNKNOWN_ERROR')
Normalize(err, kind) ==
    IF err.t = "ConvexError" THEN err
    ELSE IF err.t = "Error"
         THEN [t |-> "ConvexError", code |-> KindCode(kind), cause |-> "Error"]
         ELSE [t |-> "ConvexError", code |-> "UNKNOWN_ERROR", cause |-> "none"]

\* a call in flight is reused: no remote call of its own
RemoteCallsDeduped(i, a) ==
    IF \E j \in 1..MaxCalls : calls[j].state = "inflight" THEN <<>> ELSE <<a>>

\* the remote calls invocation i issues for its arguments a:
\* `await client.mutation(mutation, ...args)` (action, query alike)
RemoteCalls(i, a) == <<a>>

\* isSuccess without the `!isLoading()` conjunct
IsSuccessWhileLoading(l, hasError, d) == ~hasError /\ d # Undef

\* createMemo(() => !isLoading() && !error() && data() !== undefined)
IsSuccess(l, hasError, d) == ~l /\ ~hasError /\ d # Undef

\* createMemo(() => !isLoading() && error() !== undefined)
IsError(l, hasError) == ~l /\ hasError

FreshCall == CHOOSE i \in 1..MaxCalls :
                 /\ calls[i].state = "none"
                 /\ \A j \in 1..MaxCalls : calls[j].state = "none" => i <= j

\* mutate(...args) / execute(...args) / refetch() up to the await
BInvoke(a) ==
    /\ bind.kind # "none"
    /\ \E i \in 1..MaxCalls : calls[i].state = "none"
    /\ bind' = [bind EXCEPT !.isLoading = TRUE, !.error = NoError,
                            !.thrown = NoError]
    /\ calls' = [calls EXCEPT ![FreshCall] =
                    [NoCall EXCEPT !.state = "inflight", !.args = a,
                                   !.sent = RemoteCalls(FreshCall, a)]]
    /\ UNCHANGED <<mgrVars, qVars, hVars, loader, router, cqc>>

\* the remote call of invocation i resolves with v
BResolve(i, v) ==
    /\ calls[i].state = "inflight"
    /\ calls[i].sent # <<>>
    /\ bind' = [bind EXCEPT !.data = v, !.isLoading = FALSE]
    /\ calls' = [calls EXCEPT
                   ![i].state = "settled",
                   ![i].result = [ok |-> TRUE, v |-> v, thrown |-> NoError],
                   ![i].outcome = [ok |-> TRUE, v |-> v, error |-> NoError]]
    /\ UNCHANGED <<mgrVars, qVars, hVars, loader, router, cqc>>

\* the remote call of invocation i rejects with err: the catch block
BReject(i, err) ==
    /\ calls[i].state = "inflight"
    /\ calls[i].sent # <<>>
    /\ bind' = [bind EXCEPT !.error = Normalize(err, bind.kind),
                            !.isLoading = FALSE, !.thrown = err]
    /\ calls' = [calls EXCEPT
                   ![i].state = "settled",
                   ![i].result = [ok |-> FALSE, v |-> Undef, thrown |-> err],
                   ![i].outcome = [ok |-> FALSE, v |-> Undef,
                                   error |-> Normalize(err, bind.kind)]]
    /\ UNCHANGED <<mgrVars, qVars, hVars, loader, router, cqc>>

\* reset() of useMutation / useAction
BReset ==
    /\ bind.kind \in {"mutation", "action"}
    /\ bind' = [bind EXCEPT !.data = Undef, !.isLoading = FALSE,
                            !.error = NoError, !.thrown = NoError]
    /\ bind' # bind
    /\ UNCHANGED <<calls, mgrVars, qVars, hVars, loader, router, cqc>>

NextBinding ==
    \/ \E a \in CallArgs : BInvoke(a)
    \/ \E i \in 1..MaxCalls, v \in Values : BResolve(i, v)
    \/ \E i \in 1..MaxCalls, err \in Thrown : BReject(i, err)
    \/ BReset

InitBinding == MgrInit /\ QIdle /\ HInit /\ BInit /\ RIdle /\ CIdle /\ LIdle

SpecBinding == InitBinding /\ [][NextBinding]_vars

----------------------------------------------------------------------------
(* ConvexQueryClient: subscribeInner and onUpdateQueryKeyHash *)

\* every key of the cache is subscribed
WatchedAll(h) == TRUE

\* `if (!isConvexQuery(key)) return; if (isConvexSkipped(key)) return`
Watched(h) == h # "skip"

\* the pushed value is written whatever the entry holds
SetQueryDataAlways(prev, value) == value

\* queryClient.setQueryData(queryKey, (prev) => prev === undefined ? undefined : value):
\* the data of the entry afterwards
SetQueryData(prev, value) == IF prev = Undef THEN prev ELSE value

\* the query cache adds an entry for h and starts its first fetch; the
\* 'added' handler reads localQueryResult (initial) and opens the channel.
\* throws: convexClient.onUpdate throws, the handler rethrows.
CAdd(h, initial, throws) ==
    /\ cqc.on
    /\ ~cqc.qs[h].inCache
    /\ ~Watched(h) => (~throws /\ initial = Undef)
    /\ cqc' = [cqc EXCEPT
                 !.qs[h] = IF ~Watched(h)
                           THEN [@ EXCEPT !.inCache = TRUE, !.data = Undef,
                                          !.fetching = TRUE]
                           ELSE IF throws
                           THEN [@ EXCEPT !.inCache = TRUE, !.data = Undef,
                                          !.fetching = TRUE, !.opened = FALSE]
                           ELSE [@ EXCEPT !.inCache = TRUE, !.data = Undef,
                                          !.fetching = TRUE, !.opened = TRUE,
                                          !.rec = TRUE, !.live = TRUE,
                                          !.cur = initial],
                 !.log = [NoLog EXCEPT !.op = "added", !.h = h,
                                       !.threw = Watched(h) /\ throws]]
    /\ UNCHANGED <<mgrVars, qVars, hVars, loader, bVars, router>>

\* the cache drops the entry of h (gcTime passed); the 'removed' handler.
\* throws: subscription.unsubscribe() throws (caught); stillLive: the
\* channel survived the failed teardown.
CRemove(h, throws, stillLive) ==
    /\ cqc.on
    /\ cqc.qs[h].inCache
    /\ (~Watched(h) \/ ~cqc.qs[h].rec) => ~throws
    /\ ~throws => ~stillLive
    /\ cqc' = [cqc EXCEPT
                 !.qs[h] = IF Watched(h) /\ cqc.qs[h].rec
                           THEN [NoQuery EXCEPT !.live = stillLive,
                                                !.cur = IF stillLive
                                                        THEN cqc.qs[h].cur
                                                        ELSE Undef]
                           ELSE [NoQuery EXCEPT !.live = cqc.qs[h].live,
                                                !.cur = cqc.qs[h].cur],
                 !.log = [NoLog EXCEPT !.op = "removed", !.h = h,
                                       !.hadRec = cqc.qs[h].rec,
                                       !.unsub = Watched(h) /\ cqc.qs[h].rec]]
    /\ UNCHANGED <<mgrVars, qVars, hVars, loader, bVars, router>>

\* the channel of h pushes v: currentResult = newValue; callback(), which
\* is onUpdateQueryKeyHash(h). watch.localQueryResult() returns
\* currentResult and never throws, so the error branch is not taken.
CPush(h, v) ==
    /\ cqc.on
    /\ cqc.qs[h].live
    /\ LET e == cqc.qs[h]
           d == IF e.rec /\ e.inCache THEN SetQueryData(e.data, v) ELSE e.data
       IN  cqc' = [cqc EXCEPT
                     !.qs[h] = [e EXCEPT !.cur = v, !.data = d],
                     !.log = [NoLog EXCEPT
                                !.op = "push", !.h = h, !.v = v,
                                !.hadRec = e.rec,
                                !.wrote = (e.rec /\ e.inCache /\ d = v),
                                !.notified = (e.rec /\ e.inCache /\ d # Undef),
                                !.threw = ~e.rec]]
    /\ UNCHANGED <<mgrVars, qVars, hVars, loader, bVars, router>>

\* the first fetch of the entry (queryFn: await convexClient.query) resolves
\* with v and the cache stores it
CFetchResolve(h, v) ==
    /\ cqc.on
    /\ cqc.qs[h].inCache /\ cqc.qs[h].fetching
    /\ Watched(h)
    /\ cqc' = [cqc EXCEPT !.qs[h].data = v, !.qs[h].fetching = FALSE,
                          !.log = [NoLog EXCEPT !.op = "fetched", !.h = h,
                                                !.v = v, !.wrote = TRUE,
                                                !.notified = TRUE]]
    /\ UNCHANGED <<mgrVars, qVars, hVars, loader, bVars, router>>

\* connect never finds the instance subscribed
AlreadySubscribedNever(c) == FALSE

\* `if (this.unsubscribe)` in connect
AlreadySubscribed(c) == c.on

\* connect(queryClient)
CConnect(qc) ==
    /\ cqc' = IF AlreadySubscribed(cqc)
              THEN [cqc EXCEPT !.log = [NoLog EXCEPT !.op = "connect",
                                                     !.h = qc, !.threw = TRUE]]
              ELSE [cqc EXCEPT !.on = TRUE, !.qc = qc,
                               !.log = [NoLog EXCEPT !.op = "connect", !.h = qc]]
    /\ UNCHANGED <<mgrVars, qVars, hVars, loader, bVars, router>>

NextCqc ==
    \/ \E qc \in QueryClients : CConnect(qc)
    \/ \E h \in Hashes, initial \in Values \cup {Undef}, throws \in BOOLEAN :
           CAdd(h, initial, throws)
    \/ \E h \in Hashes, throws \in BOOLEAN, stillLive \in BOOLEAN :
           CRemove(h, throws, stillLive)
    \/ \E h \in Hashes, v \in Values : CPush(h, v)
    \/ \E h \in Hashes, v \in Values : CFetchResolve(h, v)

InitCqc == MgrInit /\ QIdle /\ HInit /\ BIdle /\ RIdle /\ CInit /\ LIdle

SpecCqc == InitCqc /\ [][NextCqc]_vars

----------------------------------------------------------------------------
(* solidRouterWithQueryClient: redirect interception of the cache hooks *)

\* every error is taken for a redirect
IsRedirectAlways(err) == TRUE

\* isRedirect(error)
IsRedirect(err) == err.t = "redirect"

\* the onError of the query cache (hook = "query") or of the mutation cache
\* (hook = "mutation") is called with err and the call's other arguments.
\* navThrows: router.navigate throws.
HookOnError(hook, err, args, navThrows) ==
    /\ router.n < MaxHookCalls
    /\ IF router.handle /\ IsRedirect(err)
       THEN router' = [router EXCEPT
                         !.n = @ + 1,
                         !.navs = Append(@, err.to),
                         !.onErrors = IF navThrows THEN @ + 1 ELSE @,
                         !.last = [hook |-> hook, err |-> err, args |-> args,
                                   navs |-> <<err.to>>, orig |-> <<>>,
                                   escaped |-> navThrows]]
       ELSE /\ ~navThrows
            /\ router' = [router EXCEPT
                            !.n = @ + 1,
                            !.orig = Append(@, [hook |-> hook, err |-> err,
                                                args |-> args]),
                            !.last = [hook |-> hook, err |-> err, args |-> args,
                                      navs |-> <<>>,
                                      orig |-> <<[hook |-> hook, err |-> err,
                                                  args |-> args]>>,
                                      escaped |-> FALSE]]
    /\ UNCHANGED <<mgrVars, qVars, hVars, loader, bVars, cqc>>

NextRedirect ==
    \E hook \in {"query", "mutation"}, err \in HookErrors, args \in CallArgs,
       navThrows \in BOOLEAN : HookOnError(hook, err, args, navThrows)

InitRedirect == MgrInit /\ QIdle /\ HInit /\ BIdle /\ RInit /\ CIdle /\ LIdle

SpecRedirect == InitRedirect /\ [][NextRedirect]_vars

----------------------------------------------------------------------------
(* createSolidRouterQueryLoader *)

\* const maxAttempts = retry ? retry.attempts + 1 : 1
MaxAttempts == IF loader.retry THEN loader.attempts + 1 ELSE 1

\* new RouterQueryError('Loader execution failed', 'LOADER_ERROR', lastError)
LoaderWrap(err) ==
    [t |-> "RouterQueryError", code |-> "LOADER_ERROR",
     cause |-> IF err.code # "" THEN err.code ELSE err.t]

\* the catch block treats a redirect like any other error
LoaderRethrowsNothing(err) == FALSE

\* `if (isRedirect(error)) throw error` in the catch block of an attempt
LoaderRethrows(err) == IsRedirect(err)

\* the loader is called: the first attempt calls loaderFn
LCall ==
    /\ loader.pc \in {"idle", "done", "failed"}
    /\ loader' = [loader EXCEPT !.pc = "running", !.attempt = 1, !.calls = 1,
                                !.caught = NoError, !.outcome = NoOutcome,
                                !.onErrors = 0]
    /\ UNCHANGED <<mgrVars, qVars, srv, stream, hist, cli, bVars, router, cqc>>

\* the loaderFn call of the current attempt resolves with v
LResolve(v) ==
    /\ loader.pc = "running"
    /\ loader' = [loader EXCEPT !.pc = "done",
                                !.outcome = [ok |-> TRUE, v |-> v, error |-> NoError]]
    /\ UNCHANGED <<mgrVars, qVars, srv, stream, hist, cli, bVars, router, cqc>>

\* the loaderFn call of the current attempt rejects with err: the catch
\* block, then either the rethrow of a redirect, the wrap after the loop, the
\* wait before the next attempt, or the next attempt at once
LReject(err) ==
    /\ loader.pc = "running"
    /\ loader' =
         IF LoaderRethrows(err)
         THEN [loader EXCEPT !.pc = "failed", !.caught = err,
                             !.outcome = [ok |-> FALSE, v |-> Undef, error |-> err]]
         ELSE IF loader.attempt = MaxAttempts \/ ~loader.retry
         THEN [loader EXCEPT !.pc = "failed", !.caught = err,
                             !.onErrors = @ + 1,
                             !.outcome = [ok |-> FALSE, v |-> Undef,
                                          error |-> LoaderWrap(err)]]
         ELSE IF loader.delay
         THEN [loader EXCEPT !.pc = "waiting", !.caught = err]
         ELSE [loader EXCEPT !.caught = err, !.attempt = @ + 1, !.calls = @ + 1]
    /\ UNCHANGED <<mgrVars, qVars, srv, stream, hist, cli, bVars, router, cqc>>

\* the setTimeout of retry.delay fires: the next attempt calls loaderFn
LRetry ==
    /\ loader.pc = "waiting"
    /\ loader' = [loader EXCEPT !.pc = "running", !.attempt = @ + 1,
                                !.calls = @ + 1]
    /\ UNCHANGED <<mgrVars, qVars, srv, stream, hist, cli, bVars, router, cqc>>

NextLoader ==
    \/ LCall
    \/ \E v \in Values : LResolve(v)
    \/ \E err \in LoaderThrown : LReject(err)
    \/ LRetry

InitLoader == MgrInit /\ QIdle /\ HInit /\ BIdle /\ RIdle /\ CIdle /\ LInit

SpecLoader == InitLoader /\ [][NextLoader]_vars

----------------------------------------------------------------------------
(* solidRouterWithQueryClient: SSR query stream (server) and hydrate (client) *)

Rank(st) == CASE st = "absent"  -> 0
              [] st = "pending" -> 1
              [] st = "success" -> 2

\* queryHydrate(queryClient, dehydrated): a dehydrated query is built when
\* the cache has none for its hash and replaces the cached state when it
\* carries newer data; d: query -> dehydrated state ("absent": not in d)
Hydrate(cache, d) ==
    [x \in Queries |-> IF Rank(d[x]) > Rank(cache[x]) THEN d[x] ELSE cache[x]]

\* queryDehydrate restricted to the query of the 'added' event
ChunkOf(cache, x) == [qq |-> x, st |-> cache[x]]

ChunkState(ch) == [x \in Queries |-> IF x = ch.qq THEN ch.st ELSE "absent"]

RECURSIVE HydrateAll(_, _)
HydrateAll(cache, chunks) ==
    IF chunks = <<>> THEN cache
    ELSE HydrateAll(Hydrate(cache, ChunkState(Head(chunks))), Tail(chunks))

\* the reader hands out the newest queued chunk instead of the oldest
TakeNewest(queue) ==
    [chunk |-> queue[Len(queue)], rest |-> SubSeq(queue, 1, Len(queue) - 1)]

\* reader.read() on a ReadableStream with queued chunks: the oldest one
TakeChunk(queue) == [chunk |-> Head(queue), rest |-> Tail(queue)]

\* enqueue without the `!_isClosed` check
StreamEnqueueUnguarded(st, ch) == [st EXCEPT !.queue = Append(@, ch)]

\* queryStream.enqueue(chunk)
StreamEnqueue(st, ch) ==
    IF ~st.isClosed /\ st.ctl = "open"
    THEN [st EXCEPT !.queue = Append(@, ch)]
    ELSE st

\* queryStream.error(err): controller.error drops the queued chunks
StreamError(st) ==
    IF ~st.isClosed
    THEN [isClosed |-> TRUE, ctl |-> "errored", queue |-> <<>>]
    ELSE st

\* the cleanup ends the stream the way a failure does
StreamCloseAsError(st) ==
    IF ~st.isClosed
    THEN [isClosed |-> TRUE, ctl |-> "errored", queue |-> <<>>]
    ELSE st

\* queryStream.close(): queued chunks stay readable
StreamClose(st) ==
    IF ~st.isClosed
    THEN [st EXCEPT !.isClosed = TRUE, !.ctl = "closed"]
    ELSE st

\* the consumer cancels the stream: the queue is dropped and the source's
\* cancel() sets _isClosed. Cancelling an errored stream or one that is
\* closed and drained does not reach the source.
StreamCancel(st) ==
    IF st.ctl = "open" \/ (st.ctl = "closed" /\ st.queue # <<>>)
    THEN [isClosed |-> TRUE, ctl |-> "cancelled", queue |-> <<>>]
    ELSE st

\* a query is added to the server's cache (state pending); the cache
\* subscriber of the stream handles the 'added' event. fails: dehydrating
\* the query throws.
SAdd(x, fails) ==
    /\ srv.cache[x] = "absent"
    /\ srv' = [srv EXCEPT !.cache[x] = "pending"]
    /\ IF srv.isDehydrated /\ ~stream.isClosed
       THEN IF fails
            THEN /\ stream' = StreamError(stream)
            ELSE /\ stream' = StreamEnqueue(stream, ChunkOf(srv'.cache, x))
       ELSE /\ ~fails
            /\ UNCHANGED stream
    /\ hist' = IF srv.isDehydrated
               THEN [hist EXCEPT !.added =
                        Append(@, [qq |-> x, open |-> ~stream.isClosed,
                                   failed |-> fails,
                                   finished |-> srv.finished])]
               ELSE hist
    /\ UNCHANGED <<cli, mgrVars, qVars, xVars>>

\* a pending query of the server's cache resolves ('updated' events are not
\* handled by the stream's cache subscriber)
SResolve(x) ==
    /\ srv.cache[x] = "pending"
    /\ srv' = [srv EXCEPT !.cache[x] = "success"]
    /\ hist' = IF srv.isDehydrated /\ ~stream.isClosed
               THEN [hist EXCEPT !.resolved = Append(@, x)]
               ELSE hist
    /\ UNCHANGED <<stream, cli, mgrVars, qVars, xVars>>

\* router.options.dehydrate: queryDehydrate(queryClient) with
\* shouldDehydrateQuery: () => true
SDehydrate ==
    /\ ~srv.snapTaken
    /\ srv' = [srv EXCEPT !.snapTaken = TRUE, !.snapshot = srv.cache]
    /\ UNCHANGED <<stream, hist, cli, mgrVars, qVars, xVars>>

\* the router reports isDehydrated() once dehydrate's promise is handled
SMarkDehydrated ==
    /\ srv.snapTaken /\ ~srv.isDehydrated
    /\ srv' = [srv EXCEPT !.isDehydrated = TRUE]
    /\ UNCHANGED <<stream, hist, cli, mgrVars, qVars, xVars>>

\* router.serverSsr.onRenderFinished(cleanup): queryStream.close()
SRenderFinished ==
    /\ srv.isDehydrated /\ ~srv.finished
    /\ srv' = [srv EXCEPT !.finished = TRUE]
    /\ stream' = StreamClose(stream)
    /\ UNCHANGED <<hist, cli, mgrVars, qVars, xVars>>

\* router.options.hydrate(dehydrated) on the client, up to reader.read()
CHydrate ==
    /\ cli.pc = "idle"
    /\ srv.snapTaken
    /\ cli' = [cli EXCEPT !.pc = "reading",
                          !.cache = Hydrate(@, srv.snapshot)]
    /\ UNCHANGED <<srv, stream, hist, mgrVars, qVars, xVars>>

\* a reader.read() settles and handleStreamChunk (or the catch) runs.
\* bad: queryHydrate throws on the chunk.
CRead(bad) ==
    /\ cli.pc = "reading"
    /\ IF stream.queue # <<>>
       THEN LET t == TakeChunk(stream.queue)
            IN  /\ stream' = [stream EXCEPT !.queue = t.rest]
                /\ cli' = IF bad
                          THEN [cli EXCEPT !.pc = "failed", !.onErrors = @ + 2]
                          ELSE [cli EXCEPT
                                  !.cache = Hydrate(@, ChunkState(t.chunk)),
                                  !.applied = Append(@, t.chunk)]
       ELSE /\ ~bad
            /\ stream.ctl # "open"
            /\ cli' = IF stream.ctl = "closed"
                      THEN [cli EXCEPT !.pc = "done"]
                      ELSE [cli EXCEPT !.pc = "failed", !.onErrors = @ + 1]
            /\ UNCHANGED stream
    /\ hist' = IF stream.queue # <<>>
               THEN [hist EXCEPT !.taken = Append(@, TakeChunk(stream.queue).chunk)]
               ELSE hist
    /\ UNCHANGED <<srv, mgrVars, qVars, xVars>>

\* the scope that owns the hydration consumer is destroyed while the
\* stream is being read: no cleanup is registered (`isHydrating` is never
\* set to false and reader.cancel() is never called), so only the fact is
\* recorded
CDestroy ==
    /\ cli.pc = "reading"
    /\ ~cli.destroyed
    /\ cli' = [cli EXCEPT !.destroyed = TRUE]
    /\ UNCHANGED <<srv, stream, hist, mgrVars, qVars, xVars>>

NextHydrate ==
    \/ \E x \in Queries, fails \in BOOLEAN : SAdd(x, fails)
    \/ \E x \in Queries : SResolve(x)
    \/ SDehydrate
    \/ SMarkDehydrated
    \/ SRenderFinished
    \/ CHydrate
    \/ \E bad \in BOOLEAN : CRead(bad)
    \/ CDestroy

InitHydrate == MgrInit /\ QIdle /\ HInit /\ BIdle /\ RIdle /\ CIdle /\ LIdle

SpecHydrate == InitHydrate /\ [][NextHydrate]_vars

----------------------------------------------------------------------------
(* createSolidPushableStream: the stream object driven by arbitrary calls *)

\* enqueue(chunk); the wrapper catches what the controller throws
PEnqueue(x, st) ==
    /\ stream.ctl = "open" => Len(stream.queue) < MaxQueue
    /\ stream' = StreamEnqueue(stream, [qq |-> x, st |-> st])
    /\ ev' = [NoEv EXCEPT !.op = "enqueue", !.escaped = FALSE]
    /\ UNCHANGED <<srv, hist, cli, subs, chans, obs, qVars, xVars>>

\* close()
PClose ==
    /\ stream' = StreamClose(stream)
    /\ ev' = [NoEv EXCEPT !.op = "close", !.escaped = FALSE]
    /\ UNCHANGED <<srv, hist, cli, subs, chans, obs, qVars, xVars>>

\* error(err)
PError ==
    /\ stream' = StreamError(stream)
    /\ ev' = [NoEv EXCEPT !.op = "error", !.escaped = FALSE]
    /\ UNCHANGED <<srv, hist, cli, subs, chans, obs, qVars, xVars>>

\* the consumer cancels
PCancel ==
    /\ stream' = StreamCancel(stream)
    /\ ev' = [NoEv EXCEPT !.op = "cancel"]
    /\ UNCHANGED <<srv, hist, cli, subs, chans, obs, qVars, xVars>>

\* the consumer reads a queued chunk
PRead ==
    /\ stream.queue # <<>>
    /\ stream' = [stream EXCEPT !.queue = TakeChunk(@).rest]
    /\ ev' = [NoEv EXCEPT !.op = "read"]
    /\ UNCHANGED <<srv, hist, cli, subs, chans, obs, qVars, xVars>>

NextStream ==
    \/ \E x \in Queries, st \in {"pending", "success"} : PEnqueue(x, st)
    \/ PClose
    \/ PError
    \/ PCancel
    \/ PRead

SpecStream == Init /\ [][NextStream]_vars

----------------------------------------------------------------------------
(* Properties of the subscription manager (specification Spec) *)

\* C1: for every query identity, in every reachable state, at most one
\* channel opened by client.onUpdate is not yet torn down.
C1_AtMostOneLiveChannel ==
    \A k \in Keys : Cardinality(LiveChans(k)) <= 1

\* two observers share the one live channel of an identity
C1_Witness ==
    \E k \in Keys : /\ Cardinality(LiveChans(k)) = 1
                    /\ subs[k].present /\ subs[k].refCount = 2
                    /\ Len(chans[subs[k].chan].callbacks) = 2

\* C2: when N >= 1 observers subscribe to one identity and then each calls
\* its handle once (pushes anywhere), client.onUpdate returned exactly one
\* channel for the identity, and its teardown function has been invoked
\* exactly once if all N have unsubscribed and not at all before.
C2_OneOpenOneTeardown ==
    \A k \in Keys :
        LET O == Subscribers(k)
        IN  (/\ O # {}
             /\ \A o \in O : ~obs[o].late /\ obs[o].unsubCalls <= 1)
            => /\ Cardinality(OpenedChans(k)) = 1
               /\ TornCount(k) = IF \A o \in O : obs[o].unsubCalls = 1
                                 THEN 1 ELSE 0

\* two observers subscribed, then both unsubscribed once: one channel, one teardown
C2_Witness ==
    \E k \in Keys :
        /\ Cardinality(Subscribers(k)) = 2
        /\ \A o \in Subscribers(k) : ~obs[o].late /\ obs[o].unsubCalls = 1
        /\ Cardinality(OpenedChans(k)) = 1
        /\ TornCount(k) = 1

\* C3 (as claimed): a subscribe to an identity whose entry has already
\* received a push invokes the new observer's callback, inside subscribe,
\* with the most recently pushed value.
C3_ReplayOnJoin ==
    (ev.op = "subscribe" /\ ev.hadPush)
        => /\ ev.replay = ev.mostRecent
           /\ ev.delivered = <<ev.obs>>

\* C4 (as claimed): the next subscribe after the refCount of an identity
\* reached zero opens a new channel through client.onUpdate.
C4_ReopenAfterZero ==
    (ev.op = "subscribe" /\ ev.afterZero) => ev.opened

\* C5: in a push fan-out every callback registered for the identity at the
\* time of the push is invoked with the value, whichever callbacks throw,
\* and no exception leaves the push handler.
C5_FanOutIsolation ==
    ev.op = "push" => /\ ev.delivered = ev.targets
                      /\ ev.targets = chans[ev.chan].callbacks
                      /\ ~ev.escaped

\* the first callback of the fan-out throws and a sibling follows it
C5_Witness ==
    /\ ev.op = "push"
    /\ Len(ev.targets) >= 2
    /\ ev.targets[1] \in ev.threw
    /\ ev.targets[2] \in Range(ev.delivered)

\* C6 (as claimed): the subscription error of a throwing callback goes to
\* the onError handler the throwing observer passed, and to no other one.
C6_ErrorToOwnHandler ==
    ev.op = "push" =>
        /\ Range(ev.errTo) = ev.threw
        /\ Len(ev.errTo) = Cardinality(ev.threw)

----------------------------------------------------------------------------
(* Properties of the query binding (specification SpecQuery) *)

C8_DisabledNoRemote ==
    (~q.enabled /\ q.effect = "ran")
        => /\ ~q.isLoading
           /\ q.data = NoData
           /\ refetching = <<>>
           /\ \A r \in Obs : runs[r].state = "none"
           /\ \A c \in ChanIds : chans[c].status = "unopened"

----------------------------------------------------------------------------
(* Properties of the SSR stream and hydration (specification SpecHydrate) *)

\* the chunks the server produced, in production order: one per 'added'
\* event handled after dehydration with the stream open and no failure
Produced ==
    LET sel == SelectSeq(hist.added, LAMBDA a : a.open /\ ~a.failed)
    IN  [i \in 1..Len(sel) |-> [qq |-> sel[i].qq, st |-> "pending"]]

Positions(sq, x) == {i \in 1..Len(sq) : sq[i].qq = x}

\* C9: the client applies the snapshot before any chunk, and applies the
\* chunks one at a time in the order the server produced them: the applied
\* chunks are always c1..ck and the cache is snapshot + c1..ck.
C9_HydrationOrder ==
    /\ cli.pc = "idle" => (cli.applied = <<>> /\ cli.cache = EmptyCache)
    /\ cli.pc # "idle" =>
          /\ Len(cli.applied) <= Len(Produced)
          /\ cli.applied = SubSeq(Produced, 1, Len(cli.applied))
          /\ cli.cache = HydrateAll(Hydrate(EmptyCache, srv.snapshot), cli.applied)

\* a non-empty snapshot and two chunks have been applied
C9_Witness ==
    /\ Len(cli.applied) = 2
    /\ \E x \in Queries : srv.snapshot[x] # "absent"
    /\ \A x \in Queries : cli.cache[x] # "absent"

\* C10: the chunks of entries that resolve after the initial dehydration
\* are enqueued in the order in which the entries resolved, not in the
\* order in which the entries were added to the cache.
C10_ChunksInResolutionOrder ==
    \A i, j \in 1..Len(hist.resolved) :
        i < j => \A a \in Positions(Produced, hist.resolved[i]),
                    b \in Positions(Produced, hist.resolved[j]) : a < b

\* What the stream does hold: the chunks read so far followed by the chunks
\* queued are the chunks of the 'added' events, in the order of addition.
StreamInAdditionOrder ==
    /\ stream.ctl # "errored" => hist.taken \o stream.queue = Produced
    /\ stream.ctl = "errored" =>
          /\ stream.queue = <<>>
          /\ Len(hist.taken) <= Len(Produced)
          /\ hist.taken = SubSeq(Produced, 1, Len(hist.taken))

\* the entries added after dehydration, while the render was running, at a
\* time when an earlier entry's chunk had failed to be produced
AddedAfterFailure ==
    {i \in 1..Len(hist.added) :
        /\ ~hist.added[i].failed
        /\ ~hist.added[i].finished
        /\ \E j \in 1..(i - 1) : hist.added[j].failed /\ hist.added[j].open}

\* C11: when producing a chunk fails on the server the client's onError
\* hook is told, and the chunks of the entries added afterwards are still
\* put on the stream (read by the client or queued for it).
C11_ChunksAfterFailureDelivered ==
    /\ (cli.pc = "failed" /\ stream.ctl = "errored") => cli.onErrors >= 1
    /\ \A i \in AddedAfterFailure :
          \E n \in 1..Len(hist.taken \o stream.queue) :
              (hist.taken \o stream.queue)[n].qq = hist.added[i].qq

\* C12: once the hydration consumer is destroyed, no further chunk is
\* applied to the client's query cache.
C12_NoApplyAfterDestroy ==
    [][cli.destroyed => (cli'.applied = cli.applied /\ cli'.cache = cli.cache)]_vars

----------------------------------------------------------------------------
(* Properties of the call bindings (specification SpecBinding) *)

\* C13: a redirect a mutation fails with never shows in the binding's error
\* state: after such a call error is unset.
C13_RedirectNotInErrorState ==
    (bind.kind = "mutation" /\ bind.thrown.t = "redirect") => bind.error = NoError

\* C19: every invocation issues exactly one remote call, with its own
\* arguments, whatever else is in flight, and its promise settles with the
\* outcome of that remote call.
C19_InvocationsIndependent ==
    \A i \in 1..MaxCalls :
        /\ calls[i].state # "none" => calls[i].sent = <<calls[i].args>>
        /\ calls[i].state = "settled" =>
              /\ calls[i].outcome.ok = calls[i].result.ok
              /\ calls[i].result.ok => calls[i].outcome.v = calls[i].result.v
              /\ (~calls[i].result.ok /\ calls[i].result.thrown.t = "ConvexError")
                    => calls[i].outcome.error = calls[i].result.thrown

\* two invocations with different arguments were in flight together and
\* the first has settled while the second is still in flight
C19_Witness ==
    /\ calls[1].state = "settled" /\ calls[2].state = "inflight"
    /\ calls[1].args # calls[2].args

\* C20: a set error state is a ConvexError with a code: a caught ConvexError
\* as it is, another Error wrapped with the code of the binding's kind and
\* the Error as cause, anything else with UNKNOWN_ERROR.
C20_ErrorsNormalized ==
    bind.error # NoError =>
        /\ bind.error.t = "ConvexError"
        /\ bind.error.code # ""
        /\ bind.thrown.t = "ConvexError" => bind.error = bind.thrown
        /\ bind.thrown.t = "Error" =>
              /\ bind.error.cause = "Error"
              /\ bind.kind = "query" => bind.error.code = "QUERY_ERROR"
              /\ bind.kind = "mutation" => bind.error.code = "MUTATION_ERROR"
              /\ bind.kind = "action" => bind.error.code = "ACTION_ERROR"
        /\ bind.thrown.t \notin {"ConvexError", "Error"} =>
              bind.error.code = "UNKNOWN_ERROR"

\* an action binding caught a plain Error
C20_Witness ==
    bind.kind = "action" /\ bind.thrown.t = "Error" /\ bind.error.code = "ACTION_ERROR"

\* C35: a mutation or action binding shows isLoading exactly while at least
\* one of its invocations is in flight.
C35_LoadingIffInFlight ==
    bind.kind \in {"mutation", "action"} =>
        (bind.isLoading <=> \E i \in 1..MaxCalls : calls[i].state = "inflight")

\* C36: isSuccess and isError of a binding are never both true, and both
\* are false while isLoading is true (call bindings, and the query binding
\* of useQueryWithOptions).
C36_SuccessErrorExclusive ==
    /\ ~(IsSuccess(bind.isLoading, bind.error # NoError, bind.data)
         /\ IsError(bind.isLoading, bind.error # NoError))
    /\ bind.isLoading =>
          /\ ~IsSuccess(bind.isLoading, bind.error # NoError, bind.data)
          /\ ~IsError(bind.isLoading, bind.error # NoError)
    /\ ~(IsSuccess(q.isLoading, q.error # "none", q.data.v)
         /\ IsError(q.isLoading, q.error # "none"))
    /\ q.isLoading =>
          /\ ~IsSuccess(q.isLoading, q.error # "none", q.data.v)
          /\ ~IsError(q.isLoading, q.error # "none")

\* a call binding that holds the result of an earlier invocation is loading
\* again
C36_Witness ==
    /\ bind.kind \in {"mutation", "action"}
    /\ bind.isLoading /\ bind.data # Undef /\ bind.error = NoError
    /\ \E i \in 1..MaxCalls : calls[i].state = "settled" /\ calls[i].result.ok
    /\ \E i \in 1..MaxCalls : calls[i].state = "inflight"

----------------------------------------------------------------------------
(* Properties of the redirect interception (specification SpecRedirect) *)

\* C14: however many calls fail with a redirect, router.navigate is invoked
\* once overall: the handler that runs first navigates, a later one does
\* nothing.
C14_OneNavigation ==
    router.handle => Len(router.navs) <= 1

\* C15: with redirect handling enabled, an error that is no redirect is
\* passed to the originally configured hook once, with the same arguments,
\* and nothing navigates; a redirect navigates and the original hook is
\* not called.
C15_OnlyRedirectsIntercepted ==
    (router.handle /\ router.n > 0) =>
        LET l == router.last
        IN  IF l.err.t = "redirect"
            THEN l.navs = <<l.err.to>> /\ l.orig = <<>>
            ELSE /\ l.navs = <<>>
                 /\ l.orig = <<[hook |-> l.hook, err |-> l.err, args |-> l.args]>>

\* both kinds of error went through the hooks: one navigation, one call of
\* the original mutation hook
C15_Witness ==
    /\ router.handle
    /\ Len(router.navs) = 1
    /\ \E i \in 1..Len(router.orig) : router.orig[i].hook = "mutation"
    /\ router.last.err.t = "redirect"

----------------------------------------------------------------------------
(* Properties of ConvexQueryClient (specification SpecCqc) *)

\* C16: every value the channel pushes for a subscribed key whose entry is
\* in the cache is the entry's data afterwards, also when the entry's first
\* fetch has not populated data yet.
C16_NoPushDropped ==
    (cqc.log.op = "push" /\ cqc.log.hadRec /\ cqc.qs[cqc.log.h].inCache) =>
        cqc.qs[cqc.log.h].data = cqc.log.v

C39_UpdateOnlyWithRecord ==
    cqc.log.op = "push" => cqc.log.hadRec /\ ~cqc.log.threw

\* C38: connect on an instance that is already connected throws and leaves
\* _queryClient, the cache subscription and the subscriptions table as they
\* were; a connect that returns normally found the instance not connected.
C38_ConnectOnce ==
    [][cqc'.log.op = "connect" =>
          /\ cqc.on =>
                /\ cqc'.log.threw
                /\ cqc'.on /\ cqc'.qc = cqc.qc /\ cqc'.qs = cqc.qs
          /\ ~cqc'.log.threw => ~cqc.on /\ cqc'.on /\ cqc'.qc = cqc'.log.h]_vars

\* connect was called with another QueryClient on a connected instance that
\* holds a subscription record
C38_Witness ==
    /\ cqc.log.op = "connect" /\ cqc.log.threw
    /\ cqc.log.h # cqc.qc
    /\ \E h \in Hashes : cqc.qs[h].rec

----------------------------------------------------------------------------
(* Properties of the loader (specification SpecLoader) *)

\* C21: an error the client boundary has wrapped (or a ConvexError it let
\* through) reaches the caller of a loader as that same error, not inside a
\* second wrapper.
C21_WrappedOnce ==
    (loader.pc = "failed" /\ loader.caught.t = "ConvexError") =>
        loader.outcome.error = loader.caught

\* C37: a redirect thrown by loaderFn ends the loader call at once with
\* that same redirect: no attempt follows it, it is not wrapped, and
\* onError is not called.
C37_RedirectRethrown ==
    loader.caught.t = "redirect" =>
        /\ loader.pc = "failed"
        /\ loader.outcome = [ok |-> FALSE, v |-> Undef, error |-> loader.caught]
        /\ loader.onErrors = 0
        /\ loader.calls = loader.attempt

\* loaderFn threw a redirect on a retry while further attempts remained
C37_Witness ==
    /\ loader.caught.t = "redirect" /\ loader.pc = "failed"
    /\ loader.retry /\ loader.attempt >= 2 /\ loader.attempt < MaxAttempts

----------------------------------------------------------------------------
(* Further properties of the manager (specification Spec) *)

C28_RefCountIsObserverCount ==
    \A k \in Keys :
        subs[k].present =>
            /\ subs[k].refCount =
                  Cardinality({o \in Subscribers(k) : obs[o].unsubCalls = 0})
            /\ subs[k].refCount = Len(chans[subs[k].chan].callbacks)

\* C29: no entry of the table has refCount 0, and a handle call that found
\* the teardown due (also one whose teardown threw) leaves no entry under
\* its key.
C29_NoZeroEntry ==
    /\ \A k \in Keys : subs[k].present => subs[k].refCount # 0
    /\ (ev.op \in {"unsubscribe", "pushReentrant"} /\ ev.tornDown) =>
          ~subs[ev.key].present

\* (specification SpecInvalidate)
\* C30: a call of invalidate sets isStale of the matching entries that are
\* in the table and changes nothing else: it opens no channel and invokes
\* no callback, and refCount, lastValue, the channel with its callbacks and
\* the keys of the table are as before; entries that do not match keep
\* their isStale flag.
C30_InvalidateOnlyStale ==
    [][ev'.op = "invalidate" =>
          /\ chans' = chans /\ obs' = obs
          /\ ev'.delivered = <<>> /\ ~ev'.opened /\ ev'.errTo = <<>>
          /\ \A k \in Keys :
                /\ [subs'[k] EXCEPT !.isStale = subs[k].isStale] = subs[k]
                /\ subs'[k].isStale # subs[k].isStale =>
                      /\ subs[k].present /\ subs'[k].isStale
                      /\ ev'.key \in {k, ""}]_vars

\* an entry with observers and a value was invalidated
C30_Witness ==
    /\ ev.op = "invalidate"
    /\ \E k \in Keys : /\ subs[k].present /\ subs[k].isStale
                       /\ subs[k].refCount >= 1
                       /\ subs[k].lastValue # Undef
                       /\ chans[subs[k].chan].callbacks # <<>>

\* C33: a call of an unsubscribe handle that has been called before changes
\* nothing: no refCount, no callbacks Set, no entry, and it tears down no
\* channel.
C33_HandleIdempotent ==
    [][(ev'.op = "unsubscribe" /\ obs[ev'.obs].unsubCalls >= 1) =>
          /\ subs' = subs /\ chans' = chans
          /\ ~ev'.tornDown]_vars

\* C23: an observer that subscribes through one client is served by a
\* channel opened on that client: the channel its subscribe call attached
\* it to, and every channel whose push invokes its callback, was opened by
\* the onUpdate of the observer's own client.
C23_PerClientChannels ==
    /\ ev.op = "subscribe" => ChanClient(ev.chan) = ClientOf(ev.obs)
    /\ ev.op = "push" =>
          \A o \in Range(ev.delivered) : ClientOf(o) = ChanClient(ev.chan)

----------------------------------------------------------------------------
(* Further properties of the query stream (specification SpecHydrate) *)

\* C24: when rendering finishes the server closes the stream (it ends
\* closed unless a failed dehydration had already put it into the error
\* state); a client whose reads end on the close has invoked onError not
\* once, a client whose reads end on an error has invoked it, and a client
\* never ends as done on a stream that terminated by error.
C24_CloseDistinctFromError ==
    /\ srv.finished =>
          /\ stream.isClosed
          /\ \/ stream.ctl = "closed"
             \/ /\ stream.ctl = "errored"
                /\ \E i \in 1..Len(hist.added) :
                      /\ hist.added[i].failed /\ hist.added[i].open
                      /\ ~hist.added[i].finished
    /\ cli.pc = "done" =>
          stream.ctl = "closed" /\ stream.queue = <<>> /\ cli.onErrors = 0
    /\ cli.pc = "failed" => cli.onErrors >= 1
    /\ (cli.pc = "failed" /\ cli.onErrors = 1) => stream.ctl = "errored"

\* rendering finished, the stream was closed, and the client read the
\* streamed chunks and then the end of the stream
C24_Witness ==
    /\ srv.finished /\ stream.ctl = "closed"
    /\ cli.pc = "done" /\ cli.applied # <<>>

\* C34: once the router reports isDehydrated, every query of the server's
\* cache is in the dehydrated snapshot or was handled by the stream's cache
\* subscriber after the snapshot: none was added in between and left out
\* of both.
C34_NoQueryDropped ==
    srv.isDehydrated =>
        \A x \in Queries :
            srv.cache[x] # "absent" =>
                \/ srv.snapshot[x] # "absent"
                \/ \E i \in 1..Len(hist.added) : hist.added[i].qq = x

----------------------------------------------------------------------------
(* Further properties of the query binding (specification SpecQuery) *)

\* C25: a step that turns isLoading from false to true is a call of
\* refetch() or a re-run of the effect for changed arguments; no push and
\* no error does it.
C25_LoadingOnlyByRefetchOrRerun ==
    [][(~q.isLoading /\ q'.isLoading) =>
          \/ ev'.op = "refetch" /\ Len(refetching') = Len(refetching) + 1
          \/ q'.args # q.args /\ q'.effect = "ran" /\ q.effect = "ran"]_vars

\* the binding had loaded a value and is loading again, a refetch in flight
C25_Witness ==
    /\ q.isLoading /\ q.data.v # Undef
    /\ ev.op = "refetch" /\ refetching # <<>>

\* C26: once the binding's scope is disposed and every fetch and refetch has
\* settled, the manager holds no entry and no channel is open.
C26_NothingLeftAfterDispose ==
    (/\ q.effect = "disposed"
     /\ \A r \in Obs : runs[r].state # "fetching"
     /\ refetching = <<>>) =>
        \A k \in Keys : ~subs[k].present /\ LiveChans(k) = {}

----------------------------------------------------------------------------
(* Further properties of ConvexQueryClient (specification SpecCqc) *)

\* C27: the live channel of an identity is opened only after the one-shot
\* fetch of its first access has populated the value: no entry has its
\* channel opened while that fetch is still in flight and its data absent.
C27_SubscribeAfterFetch ==
    \A h \in Hashes :
        (cqc.qs[h].inCache /\ cqc.qs[h].opened) =>
            ~cqc.qs[h].fetching /\ cqc.qs[h].data # Undef

\* C31: the result of a request that started earlier does not overwrite
\* what a request that started later has set. The fetch of the first effect
\* run is the earliest request of a binding and every refetch starts after
\* it: when that fetch settles while a refetch is in flight, data, error
\* and isLoading stay as the refetch left them.
C31_NoStaleOverwrite ==
    [][\A r \in Obs :
          (/\ runs[r].state = "fetching"
           /\ runs'[r].state # "fetching"
           /\ \A p \in Obs \ {r} : runs[p].state = "none"
           /\ refetching # <<>>)
          => /\ q'.data = q.data
             /\ q'.error = q.error
             /\ q'.isLoading = q.isLoading]_vars

----------------------------------------------------------------------------
(* Properties of the pushable stream (specification SpecStream) *)

\* C32: once close() or error() was called or the consumer cancelled, the
\* stream never opens again and no chunk is added to it (its queue only
\* shrinks, by reads or by a cancel), and a call of enqueue, close or error
\* in that state changes nothing and throws nothing.
C32_ClosedStaysClosed ==
    [][stream.isClosed =>
          /\ stream'.isClosed /\ stream'.ctl # "open"
          /\ \/ stream'.queue = stream.queue
             \/ stream'.queue = <<>>
             \/ stream.queue # <<>> /\ stream'.queue = Tail(stream.queue)
          /\ ev'.op \in {"enqueue", "close", "error"} =>
                stream' = stream /\ ~ev'.escaped]_vars

\* enqueue was called on a closed stream that still holds a chunk to read
C32_Witness ==
    /\ ev.op = "enqueue"
    /\ stream.isClosed /\ stream.ctl = "closed" /\ stream.queue # <<>>

====
